---- MODULE Spec2Model ----
(***************************************************************************)
(* Model of reviewer.py: the change relationship analyzer (file            *)
(* classifier, relationship graph builder, group assembler), the diff      *)
(* position indexer (parse_diff_for_line_info), the suggestion locator     *)
(* (normalize_file_path, parse_gemini_review_for_inline_comments), the     *)
(* review poster (review_with_gemini_cli, post_inline_comment,             *)
(* post_combined_review) and the orchestrator (main).                      *)
(*                                                                         *)
(* Python strings are TLA+ strings; TLC evaluates Len, SubSeq and \o on    *)
(* them, so prefixes, substrings and splits are computed character by      *)
(* character as the Python code computes them.                             *)
(***************************************************************************)
EXTENDS Integers, Sequences, FiniteSets, TLC

VARIABLES
    changes,         \* advanced_group_related_files: the changes argument
    file_analysis,   \* advanced_group_related_files: file_analysis, keyed by path
    relationships,   \* advanced_group_related_files: relationships, keyed by path
    gpos,            \* the index of the change the grouping loop takes next
    processed,       \* advanced_group_related_files: processed
    groups,          \* advanced_group_related_files: groups
    gpc,             \* "idle" | "start" | "loop" | "done"
    diff_src,        \* diff_content.split('\n'), each line as the item that wrote it
    dpos,            \* the index of the line the loop takes next
    current_file,    \* parse_diff_for_line_info: current_file ("" is None)
    new_line_num,    \* parse_diff_for_line_info: new_line_num
    lines_info,      \* parse_diff_for_line_info: lines_info
    dpc,             \* "idle" | "loop" | "done": position in parse_diff_for_line_info
    gemini_file_path,   \* normalize_file_path: the cited path
    actual_file_paths,  \* normalize_file_path: the indexed paths, in dict order
    normalized_file,    \* normalize_file_path: the value returned
    npc,                \* "idle" | "call" | "done"
    review,             \* parse_gemini_review_for_inline_comments: review.split('\n')
    file_lines,         \* ... the keys of file_lines, in insertion order
    rpos,               \* the index of the review line the loop takes next
    suggestions,        \* ... suggestions
    unique_suggestions, \* ... the value returned
    rpc,                \* "idle" | "index" | "loop" | "done"
    commit_sha,         \* post_combined_review: commit_sha
    gen_outcome,        \* review_with_gemini_cli: how the generator call ended
    ipos,               \* the index of the suggestion the posting loop takes next
    inline_count,       \* post_combined_review: inline_count
    requests,           \* the POST requests sent to the notes endpoint, with their outcome
    notes,              \* the notes the merge request holds
    returned,           \* post_combined_review: the value returned ("" before)
    ppc,                \* "idle" | "call" | "parse" | "done"
    member_files,       \* create_file_group: the related_files argument
    group,              \* create_file_group: the group returned
    cpc,                \* "idle" | "call" | "done"
    mr_state,           \* main: mr_info["state"]
    all_commits,        \* main: all_commits, newest first
    all_changes,        \* main: all_changes
    mode,               \* the branch main took: "" | "incremental" | "full"
    work,               \* the commits under review, each with the changes reviewed for it
    wpos,               \* the index of the commit the review loop takes next
    gi,                 \* the index of the group the group loop takes next
    mpc                 \* "idle" | "start" | "commit" | "groups" | "done"

groupVars == <<changes, file_analysis, relationships, gpos, processed, groups, gpc>>

diffVars == <<diff_src, dpos, current_file, new_line_num, lines_info, dpc>>

normVars == <<gemini_file_path, actual_file_paths, normalized_file, npc>>

locVars == <<review, file_lines, rpos, suggestions, unique_suggestions, rpc>>

postVars == <<commit_sha, gen_outcome, ipos, inline_count, requests, notes, returned, ppc>>

createVars == <<member_files, group, cpc>>

mainVars == <<mr_state, all_commits, all_changes, mode, work, wpos, gi, mpc>>

vars == <<groupVars, diffVars, normVars, locVars, postVars, createVars, mainVars>>

(***************************************************************************)
(* Bounds of the model.                                                    *)
(***************************************************************************)
MaxDiffLines == 4

MaxChanges == 3

MaxIndexed == 3

MaxReviewLines == 2

(***************************************************************************)
(* String helpers: the str methods the code calls.                         *)
(***************************************************************************)
Char(s, i) == SubSeq(s, i, i)

StartsWith(s, p) == Len(s) >= Len(p) /\ SubSeq(s, 1, Len(p)) = p

EndsWith(s, p) == Len(s) >= Len(p) /\ SubSeq(s, Len(s) - Len(p) + 1, Len(s)) = p

\* Python: sub in s
Contains(s, sub) ==
    \E i \in 1 .. (Len(s) - Len(sub) + 1) : SubSeq(s, i, i + Len(sub) - 1) = sub

\* Python: s[n:]
DropPrefix(s, n) == SubSeq(s, n + 1, Len(s))

Digits == {"0", "1", "2", "3", "4", "5", "6", "7", "8", "9"}

DigitVal(c) ==
    CASE c = "0" -> 0 [] c = "1" -> 1 [] c = "2" -> 2 [] c = "3" -> 3
      [] c = "4" -> 4 [] c = "5" -> 5 [] c = "6" -> 6 [] c = "7" -> 7
      [] c = "8" -> 8 [] c = "9" -> 9

DigitChar(d) ==
    CASE d = 0 -> "0" [] d = 1 -> "1" [] d = 2 -> "2" [] d = 3 -> "3"
      [] d = 4 -> "4" [] d = 5 -> "5" [] d = 6 -> "6" [] d = 7 -> "7"
      [] d = 8 -> "8" [] d = 9 -> "9"

\* Python: int(s) for a non-empty string of decimal digits
RECURSIVE ToInt(_)
ToInt(s) ==
    IF Len(s) = 0 THEN 0
    ELSE 10 * ToInt(SubSeq(s, 1, Len(s) - 1)) + DigitVal(Char(s, Len(s)))

\* Python: str(n) for n >= 0 (how a diff writer prints a line number)
RECURSIVE Dec(_)
Dec(n) == IF n < 10 THEN DigitChar(n) ELSE Dec(n \div 10) \o DigitChar(n % 10)

\* the length of the longest run of digits of s that starts at position i
RECURSIVE DigitRun(_, _)
DigitRun(s, i) ==
    IF i <= Len(s) /\ Char(s, i) \in Digits THEN 1 + DigitRun(s, i + 1) ELSE 0

\* Python: s.split(' ')
RECURSIVE SplitSpace(_)
SplitSpace(s) ==
    IF ~Contains(s, " ") THEN <<s>>
    ELSE LET i == CHOOSE k \in 1 .. Len(s) :
                      /\ Char(s, k) = " "
                      /\ \A j \in 1 .. (k - 1) : Char(s, j) # " "
         IN <<SubSeq(s, 1, i - 1)>> \o SplitSpace(DropPrefix(s, i))

LowerLetters ==
    {"a", "b", "c", "d", "e", "f", "g", "h", "i", "j", "k", "l", "m", "n", "o", "p", "q", "r", "s", "t", "u", "v", "w", "x", "y", "z"}

UpperLetters ==
    {"A", "B", "C", "D", "E", "F", "G", "H", "I", "J", "K", "L", "M", "N", "O", "P", "Q", "R", "S", "T", "U", "V", "W", "X", "Y", "Z"}

\* \w of the re module, over the characters of the model
WordChars == LowerLetters \cup UpperLetters \cup Digits \cup {"_"}

\* \s of the re module and of str.strip(), over the characters of the model
SpaceChars == {" ", "\t", "\n"}

LowerChar(c) ==
    CASE c = "A" -> "a" [] c = "B" -> "b" [] c = "C" -> "c" [] c = "D" -> "d"
      [] c = "E" -> "e" [] c = "F" -> "f" [] c = "G" -> "g" [] c = "H" -> "h"
      [] c = "I" -> "i" [] c = "J" -> "j" [] c = "K" -> "k" [] c = "L" -> "l"
      [] c = "M" -> "m" [] c = "N" -> "n" [] c = "O" -> "o" [] c = "P" -> "p"
      [] c = "Q" -> "q" [] c = "R" -> "r" [] c = "S" -> "s" [] c = "T" -> "t"
      [] c = "U" -> "u" [] c = "V" -> "v" [] c = "W" -> "w" [] c = "X" -> "x"
      [] c = "Y" -> "y" [] c = "Z" -> "z"
      [] OTHER -> c

\* Python: s.lower()
RECURSIVE Lower(_)
Lower(s) ==
    IF Len(s) = 0 THEN "" ELSE LowerChar(Char(s, 1)) \o Lower(DropPrefix(s, 1))

\* Python: s.strip()
RECURSIVE Strip(_)
Strip(s) ==
    IF Len(s) = 0 THEN ""
    ELSE IF Char(s, 1) \in SpaceChars THEN Strip(DropPrefix(s, 1))
    ELSE IF Char(s, Len(s)) \in SpaceChars THEN Strip(SubSeq(s, 1, Len(s) - 1))
    ELSE s

\* Python: s.replace(pat, '') for a non-empty pat: one pass, left to right
RECURSIVE Remove(_, _)
Remove(s, pat) ==
    IF Len(s) < Len(pat) THEN s
    ELSE IF StartsWith(s, pat) THEN Remove(DropPrefix(s, Len(pat)), pat)
    ELSE Char(s, 1) \o Remove(DropPrefix(s, 1), pat)

\* the positions of the character c in s
PositionsOf(s, c) == {i \in 1 .. Len(s) : Char(s, i) = c}

Max(S) == CHOOSE x \in S : \A y \in S : y <= x

Min(S) == CHOOSE x \in S : \A y \in S : x <= y

\* Python: os.path.basename(p), which is p[p.rfind('/') + 1:]
Basename(p) ==
    IF PositionsOf(p, "/") = {} THEN p ELSE DropPrefix(p, Max(PositionsOf(p, "/")))

\* Python: Path(p).stem for a path without empty, '.' or '..' components: the final
\* component without its last suffix (a leading or trailing dot is no suffix)
Stem(p) ==
    LET name == Basename(p)
        dots == PositionsOf(name, ".")
    IN IF dots = {} \/ Max(dots) = 1 \/ Max(dots) = Len(name) THEN name
       ELSE SubSeq(name, 1, Max(dots) - 1)

\* the length of the longest run of characters of set cs in s that starts at i
RECURSIVE RunOf(_, _, _)
RunOf(s, i, cs) ==
    IF i <= Len(s) /\ Char(s, i) \in cs THEN 1 + RunOf(s, i + 1, cs) ELSE 0

\* any(p in s for p in pats)
ContainsAny(s, pats) == \E q \in pats : Contains(s, q)

\* s.endswith((...))
EndsWithAny(s, sufs) == \E q \in sufs : EndsWith(s, q)

(***************************************************************************)
(* File Classifier: determine_file_type, detect_language, is_test_file,    *)
(* is_config_file, is_documentation_file.                                  *)
(***************************************************************************)
determine_file_type(file_path) ==
    LET path_lower == Lower(file_path) IN
    IF ContainsAny(path_lower, {"test", "spec", "__test__"}) THEN "test"
    ELSE IF ContainsAny(path_lower, {"config", "setting", "env", "properties"})
         THEN "config"
    ELSE IF ContainsAny(path_lower, {"readme", "doc", "md", "rst"}) THEN "documentation"
    ELSE IF EndsWithAny(file_path, {".py", ".java", ".kt", ".ts", ".js", ".go", ".cs"})
         THEN "source"
    ELSE IF EndsWithAny(file_path, {".json", ".yaml", ".yml", ".xml", ".toml"})
         THEN "config"
    ELSE IF EndsWithAny(file_path, {".sql", ".migration"}) THEN "database"
    ELSE "other"

detect_language(file_path) ==
    IF EndsWith(file_path, ".java") THEN "java"
    ELSE IF EndsWith(file_path, ".kt") THEN "kotlin"
    ELSE IF EndsWith(file_path, ".py") THEN "python"
    ELSE IF EndsWith(file_path, ".go") THEN "go"
    ELSE IF EndsWithAny(file_path, {".ts", ".tsx"}) THEN "typescript"
    ELSE IF EndsWithAny(file_path, {".js", ".jsx"}) THEN "javascript"
    ELSE IF EndsWith(file_path, ".cs") THEN "csharp"
    ELSE IF EndsWith(file_path, ".rb") THEN "ruby"
    ELSE IF EndsWith(file_path, ".php") THEN "php"
    ELSE IF EndsWithAny(file_path, {".cpp", ".cc", ".cxx"}) THEN "cpp"
    ELSE IF EndsWith(file_path, ".c") THEN "c"
    ELSE IF EndsWith(file_path, ".rs") THEN "rust"
    ELSE IF EndsWith(file_path, ".swift") THEN "swift"
    ELSE IF EndsWith(file_path, ".scala") THEN "scala"
    ELSE "unknown"

is_test_file(file_path) ==
    LET path_lower == Lower(file_path) IN
    \/ ContainsAny(path_lower, {"test/", "tests/", "__test__/", "__tests__/",
                                "spec/", "specs/"})
    \/ ContainsAny(path_lower, {"test", "tests", "spec", "specs", "_test", "_tests",
                                ".test.", ".spec.", "test_", "spec_"})

\* the pattern 'Dockerfile' is looked for in the lower-cased path, as in the code
is_config_file(file_path) ==
    ContainsAny(Lower(file_path),
                {"config", "setting", "env", "properties", "application.yml",
                 "application.yaml", "application.properties", "pom.xml",
                 "build.gradle", "package.json", "requirements.txt", "Dockerfile"})

is_documentation_file(file_path) ==
    \/ EndsWithAny(Lower(file_path), {".md", ".rst", ".txt", ".adoc"})
    \/ Contains(Lower(file_path), "readme")

(***************************************************************************)
(* Dependency Extractor: extract_dependencies_from_diff.  A diff is the    *)
(* sequence of its lines, diff_content.split('\n').                        *)
(***************************************************************************)
\* [line[1:] for line in ... if line.startswith('+') and not line.startswith('+++')],
\* each then stripped by the loop
RECURSIVE AddedLines(_)
AddedLines(diff) ==
    IF diff = <<>> THEN <<>>
    ELSE IF StartsWith(diff[1], "+") /\ ~StartsWith(diff[1], "+++")
         THEN <<Strip(DropPrefix(diff[1], 1))>> \o AddedLines(Tail(diff))
         ELSE AddedLines(Tail(diff))

\* the starts i of a match of kw\s+(\w+) in line
KeywordMatches(line, kw) ==
    {i \in 1 .. Len(line) :
        /\ i + Len(kw) - 1 <= Len(line)
        /\ SubSeq(line, i, i + Len(kw) - 1) = kw
        /\ RunOf(line, i + Len(kw), SpaceChars) >= 1
        /\ RunOf(line, i + Len(kw) + RunOf(line, i + Len(kw), SpaceChars), WordChars) >= 1}

\* match.group(1) of the leftmost match of kw\s+(\w+) (re.search; re.match when the
\* line starts with kw)
KeywordName(line, kw) ==
    LET i == Min(KeywordMatches(line, kw))
        j == i + Len(kw) + RunOf(line, i + Len(kw), SpaceChars)
    IN SubSeq(line, j, j + RunOf(line, j, WordChars) - 1)

NoDependencies == [imports |-> <<>>, exports |-> <<>>, classes |-> <<>>, functions |-> <<>>]

\* the body of "for line in added_lines" for one stripped line
ExtractLine(dep, line, language) ==
    IF language = "python" THEN
        IF StartsWith(line, "import ") \/ StartsWith(line, "from ")
        THEN [dep EXCEPT !.imports = Append(@, line)]
        ELSE IF StartsWith(line, "class ")
        THEN IF KeywordMatches(line, "class") # {} /\ Min(KeywordMatches(line, "class")) = 1
             THEN [dep EXCEPT !.classes = Append(@, KeywordName(line, "class"))]
             ELSE dep
        ELSE IF StartsWith(line, "def ")
        THEN IF KeywordMatches(line, "def") # {} /\ Min(KeywordMatches(line, "def")) = 1
             THEN [dep EXCEPT !.functions = Append(@, KeywordName(line, "def"))]
             ELSE dep
        ELSE dep
    ELSE IF language \in {"java", "kotlin"} THEN
        IF StartsWith(line, "import ")
        THEN [dep EXCEPT !.imports = Append(@, line)]
        ELSE IF Contains(line, "class ") /\ KeywordMatches(line, "class") # {}
        THEN [dep EXCEPT !.classes = Append(@, KeywordName(line, "class"))]
        ELSE dep
    ELSE IF language \in {"javascript", "typescript"} THEN
        IF StartsWith(line, "import ") \/ Contains(line, "require(")
        THEN [dep EXCEPT !.imports = Append(@, line)]
        ELSE IF StartsWith(line, "export ")
        THEN [dep EXCEPT !.exports = Append(@, line)]
        ELSE IF Contains(line, "class ") /\ KeywordMatches(line, "class") # {}
        THEN [dep EXCEPT !.classes = Append(@, KeywordName(line, "class"))]
        ELSE dep
    ELSE dep

RECURSIVE ExtractLines(_, _, _)
ExtractLines(dep, lines, language) ==
    IF lines = <<>> THEN dep
    ELSE ExtractLines(ExtractLine(dep, lines[1], language), Tail(lines), language)

extract_dependencies_from_diff(diff_content, language) ==
    ExtractLines(NoDependencies, AddedLines(diff_content), language)

\* the path of a change: change.get('new_path') or change.get('old_path')
PathOf(change) == change.path

\* analyze_file; "exports" and "dependencies" are never read and are left out
analyze_file(change, file_path) ==
    LET dep == IF change.diff # <<>>
               THEN extract_dependencies_from_diff(change.diff,
                                                   detect_language(file_path))
               ELSE NoDependencies
    IN [type |-> determine_file_type(file_path),
        language |-> detect_language(file_path),
        imports |-> dep.imports,
        classes |-> dep.classes,
        functions |-> dep.functions,
        is_test |-> is_test_file(file_path),
        is_config |-> is_config_file(file_path),
        is_doc |-> is_documentation_file(file_path)]

\* step 1 of advanced_group_related_files: file_analysis, keyed by path; a later
\* change of the same path overwrites an earlier one
FileAnalysisOf(chs) ==
    [q \in {PathOf(chs[i]) : i \in DOMAIN chs} |->
        LET last == Max({i \in DOMAIN chs : PathOf(chs[i]) = q})
        IN analyze_file(chs[last], q)]

(***************************************************************************)
(* Relationship Graph Builder.                                             *)
(***************************************************************************)
\* the four replace() calls, in the order of test_patterns
StripTestWords(base) == Remove(Remove(Remove(Remove(base, "test"), "tests"), "spec"), "specs")

SeqRange(sq) == {sq[i] : i \in DOMAIN sq}

is_test_relationship(file1, file2, analysis1, analysis2) ==
    \/ \E class1 \in SeqRange(analysis1.classes), class2 \in SeqRange(analysis2.classes) :
           Remove(Lower(class1), "test") = Remove(Lower(class2), "test")
    \/ StripTestWords(Lower(Stem(file1))) = StripTestWords(Lower(Stem(file2)))

is_import_relationship(file1, file2, analysis1, analysis2) ==
    \E import_line \in SeqRange(analysis1.imports) :
        Contains(Lower(import_line), Lower(Stem(file2)))

is_config_relationship(file1, file2, analysis1, analysis2) ==
    \/ analysis1.is_config /\ analysis2.type = "source"
    \/ analysis2.is_config /\ analysis1.type = "source"

BucketNames ==
    {"tests", "tested_by", "imports", "imported_by", "configs", "configured_by",
     "documents", "documented_by"}

build_relationship_mapOneSided(fa) ==
    LET P == DOMAIN fa
        tp == {pr \in P \X P : pr[1] # pr[2] /\
                  is_test_relationship(pr[1], pr[2], fa[pr[1]], fa[pr[2]])}
        ip == {pr \in P \X P : pr[1] # pr[2] /\
                  is_import_relationship(pr[1], pr[2], fa[pr[1]], fa[pr[2]])}
        cp == {pr \in P \X P : pr[1] # pr[2] /\
                  is_config_relationship(pr[1], pr[2], fa[pr[1]], fa[pr[2]])}
    IN [x \in P |->
          [tests |-> {y \in P : \/ <<x, y>> \in tp /\ fa[x].is_test
                                \/ <<y, x>> \in tp /\ ~fa[y].is_test},
           tested_by |-> {y \in P : \/ <<y, x>> \in tp /\ fa[y].is_test
                                    \/ <<x, y>> \in tp /\ ~fa[x].is_test},
           imports |-> {y \in P : <<x, y>> \in ip},
           imported_by |-> {},
           configs |-> {y \in P : \/ <<y, x>> \in cp /\ fa[y].is_config
                                  \/ <<x, y>> \in cp /\ ~fa[x].is_config},
           configured_by |-> {y \in P : \/ <<x, y>> \in cp /\ fa[x].is_config
                                        \/ <<y, x>> \in cp /\ ~fa[y].is_config},
           documents |-> {},
           documented_by |-> {}]]

\* The double loop visits every ordered pair (file_path, other_path) of distinct
\* analysed paths.  tp, ip, cp are the pairs for which the test, import and config
\* predicate holds; the pass of pair (a, b) appends b to a bucket of a and a to the
\* inverse bucket of b, the bucket chosen by a's is_test / is_config flag.  Buckets
\* are lists in the code and are only ever read for membership (set.update), so a
\* bucket is modelled as the set of its elements.
build_relationship_map(fa) ==
    LET P == DOMAIN fa
        tp == {pr \in P \X P : pr[1] # pr[2] /\
                  is_test_relationship(pr[1], pr[2], fa[pr[1]], fa[pr[2]])}
        ip == {pr \in P \X P : pr[1] # pr[2] /\
                  is_import_relationship(pr[1], pr[2], fa[pr[1]], fa[pr[2]])}
        cp == {pr \in P \X P : pr[1] # pr[2] /\
                  is_config_relationship(pr[1], pr[2], fa[pr[1]], fa[pr[2]])}
    IN [x \in P |->
          [tests |-> {y \in P : \/ <<x, y>> \in tp /\ fa[x].is_test
                                \/ <<y, x>> \in tp /\ ~fa[y].is_test},
           tested_by |-> {y \in P : \/ <<y, x>> \in tp /\ fa[y].is_test
                                    \/ <<x, y>> \in tp /\ ~fa[x].is_test},
           imports |-> {y \in P : <<x, y>> \in ip},
           imported_by |-> {y \in P : <<y, x>> \in ip},
           configs |-> {y \in P : \/ <<y, x>> \in cp /\ fa[y].is_config
                                  \/ <<x, y>> \in cp /\ ~fa[x].is_config},
           configured_by |-> {y \in P : \/ <<x, y>> \in cp /\ fa[x].is_config
                                        \/ <<y, x>> \in cp /\ ~fa[y].is_config},
           documents |-> {},
           documented_by |-> {}]]

(***************************************************************************)
(* Group Assembler: find_all_related_files, create_file_group,             *)
(* advanced_group_related_files.                                           *)
(***************************************************************************)
\* relationships.get(path, {}): the buckets of a path, none for an unknown path
BucketsOf(rels, q, ks) ==
    IF q \in DOMAIN rels THEN UNION {rels[q][k] : k \in ks} ELSE {}

SecondHopAllBuckets == BucketNames

\* the buckets followed on the second hop
SecondHopBuckets == {"tests", "tested_by", "imports", "imported_by"}

\* related_paths after the direct and the indirect pass, intersected with the
\* changed paths
RelatedPaths(file_path, rels, chs) ==
    LET direct == BucketsOf(rels, file_path, BucketNames)
        indirect == UNION {BucketsOf(rels, r, SecondHopBuckets) : r \in direct}
    IN (direct \cup indirect) \cap {PathOf(chs[i]) : i \in DOMAIN chs}

RECURSIVE FilterChanges(_, _, _)
FilterChanges(chs, related, file_path) ==
    IF chs = <<>> THEN <<>>
    ELSE IF PathOf(chs[1]) \in related \/ PathOf(chs[1]) = file_path
         THEN <<chs[1]>> \o FilterChanges(Tail(chs), related, file_path)
         ELSE FilterChanges(Tail(chs), related, file_path)

find_all_related_filesWithoutSeed(file_path, rels, chs) ==
    FilterChanges(chs, RelatedPaths(file_path, rels, chs), "")

find_all_related_files(file_path, rels, chs) ==
    FilterChanges(chs, RelatedPaths(file_path, rels, chs), file_path)

\* file_analysis.get(path, {}).get('type', 'other')
TypeOf(fa, q) == IF q \in DOMAIN fa THEN fa[q].type ELSE "other"

GroupTypeConfigBeforeTest(file_types) ==
    LET has_test == "test" \in file_types
        has_source == "source" \in file_types
        has_config == "config" \in file_types
        has_doc == "documentation" \in file_types
    IN IF has_test /\ has_source /\ has_config THEN "comprehensive"
       ELSE IF has_test /\ has_source THEN "source_with_test"
       ELSE IF has_source /\ has_config THEN "source_with_config"
       ELSE IF has_config THEN "config_only"
       ELSE IF has_test THEN "test_only"
       ELSE IF has_doc THEN "documentation_only"
       ELSE "source_only"

GroupTypeTestFirst(file_types) ==
    IF "test" \in file_types THEN "test_only" ELSE GroupTypeConfigBeforeTest(file_types)

\* group_type of create_file_group, over the types that occur in file_types
GroupType(file_types) ==
    LET has_test == "test" \in file_types
        has_source == "source" \in file_types
        has_config == "config" \in file_types
        has_doc == "documentation" \in file_types
    IN IF has_test /\ has_source /\ has_config THEN "comprehensive"
       ELSE IF has_test /\ has_source THEN "source_with_test"
       ELSE IF has_source /\ has_config THEN "source_with_config"
       ELSE IF has_test THEN "test_only"
       ELSE IF has_config THEN "config_only"
       ELSE IF has_doc THEN "documentation_only"
       ELSE "source_only"

create_group_summary(related_files, fa) ==
    [i \in DOMAIN related_files |->
        LET q == PathOf(related_files[i]) IN
        [path |-> q,
         type |-> IF q \in DOMAIN fa THEN fa[q].type ELSE "unknown",
         classes |-> IF q \in DOMAIN fa THEN fa[q].classes ELSE <<>>,
         functions |-> IF q \in DOMAIN fa THEN fa[q].functions ELSE <<>>]]

create_file_group(main_file, related_files, fa) ==
    [type |-> GroupType({TypeOf(fa, PathOf(related_files[i])) : i \in DOMAIN related_files}),
     files |-> related_files,
     main_file |-> main_file,
     language |-> IF main_file \in DOMAIN fa THEN fa[main_file].language ELSE "unknown",
     summary |-> create_group_summary(related_files, fa)]

\* for rf in related_files: processed.add(path of rf)
MarkProcessed(done, related_files) ==
    done \cup {PathOf(related_files[i]) : i \in DOMAIN related_files}

\* the changed files a review cycle may be given: a path and the lines of its diff
ChangePool ==
    { [path |-> "UserService.java", diff |-> <<>>],
      [path |-> "UserServiceTest.java", diff |-> <<>>],
      [path |-> "application.yml", diff |-> <<>>],
      [path |-> "README.md", diff |-> <<>>],
      [path |-> "app/main.py",
       diff |-> <<"@@ -1,2 +1,3 @@", "+import helper", " x = 1">>],
      [path |-> "app/helper.py",
       diff |-> <<"@@ -0,0 +1,2 @@", "+def run():", "+    pass">>],
      [path |-> "Invoice.kt", diff |-> <<"@@ -0,0 +1,1 @@", "+class Invoice {">>],
      [path |-> "InvoiceCheck.kt",
       diff |-> <<"@@ -0,0 +1,1 @@", "+internal class InvoiceTest {">>] }

\* four files in a chain: main.py imports helper, helperSpec.py tests helper.py and
\* imports fixtures
ChainExample ==
    << [path |-> "app/main.py",
        diff |-> <<"@@ -1,2 +1,3 @@", "+import helper", " x = 1">>],
       [path |-> "app/helper.py",
        diff |-> <<"@@ -0,0 +1,2 @@", "+def run():", "+    pass">>],
       [path |-> "app/helperSpec.py", diff |-> <<"@@ -0,0 +1,1 @@", "+import fixtures">>],
       [path |-> "app/fixtures.py", diff |-> <<>>] >>

\* a file of type 'other' on its own, and a test file with a config file of the
\* same stem
StemExamples ==
    { << [path |-> "Makefile", diff |-> <<>>] >>,
      << [path |-> "UserServiceTest.java", diff |-> <<>>],
         [path |-> "UserService.yml", diff |-> <<>>] >> }

GroupInit ==
    /\ changes \in UNION {[1 .. n -> ChangePool] : n \in 1 .. MaxChanges}
                     \cup {ChainExample} \cup StemExamples
    /\ file_analysis = <<>>
    /\ relationships = <<>>
    /\ gpos = 1
    /\ processed = {}
    /\ groups = <<>>
    /\ gpc = "start"
    /\ diff_src = <<>> /\ dpos = 0 /\ current_file = "" /\ new_line_num = 0
    /\ lines_info = <<>> /\ dpc = "idle"
    /\ gemini_file_path = "" /\ actual_file_paths = <<>> /\ normalized_file = ""
    /\ npc = "idle"
    /\ review = <<>> /\ file_lines = <<>> /\ rpos = 0 /\ suggestions = <<>>
    /\ unique_suggestions = <<>> /\ rpc = "idle"
    /\ commit_sha = "" /\ gen_outcome = "" /\ ipos = 0 /\ inline_count = 0 /\ requests = <<>> /\ notes = <<>> /\ returned = "" /\ ppc = "idle"
    /\ member_files = <<>> /\ group = <<>> /\ cpc = "idle"
    /\ mr_state = "" /\ all_commits = <<>> /\ all_changes = <<>> /\ mode = "" /\ work = <<>> /\ wpos = 0 /\ gi = 0 /\ mpc = "idle"

\* steps 1 and 2: analyse every file, build the relationship map
AnalyzeFiles ==
    /\ gpc = "start"
    /\ file_analysis' = FileAnalysisOf(changes)
    /\ relationships' = build_relationship_map(file_analysis')
    /\ gpc' = "loop"
    /\ UNCHANGED <<changes, gpos, processed, groups, diffVars, normVars, locVars, postVars,
                   createVars, mainVars>>

\* step 3, "if file_path in processed: continue"
SkipProcessed ==
    /\ gpc = "loop"
    /\ gpos <= Len(changes)
    /\ PathOf(changes[gpos]) \in processed
    /\ gpos' = gpos + 1
    /\ UNCHANGED <<changes, file_analysis, relationships, processed, groups, gpc, diffVars, normVars, locVars,
                   postVars, createVars, mainVars>>

\* step 3 for an unprocessed file: its related files become a group and are marked
EmitGroup ==
    /\ gpc = "loop"
    /\ gpos <= Len(changes)
    /\ PathOf(changes[gpos]) \notin processed
    /\ LET file_path == PathOf(changes[gpos])
           related_files == find_all_related_files(file_path, relationships, changes)
       IN /\ groups' = Append(groups,
                              create_file_group(file_path, related_files, file_analysis))
          /\ processed' = MarkProcessed(processed, related_files)
    /\ gpos' = gpos + 1
    /\ UNCHANGED <<changes, file_analysis, relationships, gpc, diffVars, normVars, locVars,
                   postVars, createVars, mainVars>>

ReturnGroups ==
    /\ gpc = "loop"
    /\ gpos > Len(changes)
    /\ gpc' = "done"
    /\ UNCHANGED <<changes, file_analysis, relationships, gpos, processed, groups, diffVars, normVars, locVars,
                   postVars, createVars, mainVars>>

GroupNext ==
    \/ AnalyzeFiles
    \/ SkipProcessed
    \/ EmitGroup
    \/ ReturnGroups

(***************************************************************************)
(* Diff Position Indexer: parse_diff_for_line_info.                        *)
(*                                                                         *)
(* The diff text is a sequence of lines (diff_content.split('\n')).  The   *)
(* model keeps each line as the item a diff writer produced (its role and  *)
(* its text) and hands the indexer the line as written, RenderLine(item);  *)
(* the indexer sees only the rendered text.                                *)
(***************************************************************************)
DiffFiles == {"a.py", "b.py"}

AddedTexts == {"x", "++i"}

RemovedTexts == {"y", "-- c"}

DiffItem(k, f, s, t) == [kind |-> k, file |-> f, start |-> s, text |-> t]

DiffItems ==
    {DiffItem("file", f, 0, "") : f \in DiffFiles}
        \cup {DiffItem("hunk", "", 10, "")}
        \cup {DiffItem("badhunk", "", 0, "")}
        \cup {DiffItem("add", "", 0, t) : t \in AddedTexts}
        \cup {DiffItem("rem", "", 0, t) : t \in RemovedTexts}
        \cup {DiffItem("ctx", "", 0, "z")}
        \cup {DiffItem("nonl", "", 0, "")}

\* the text of one line of the unified diff
RenderLine(it) ==
    CASE it.kind = "file" -> "diff --git a/" \o it.file \o " b/" \o it.file
      [] it.kind = "hunk" ->
            "@@ -" \o Dec(it.start - 5) \o ",3 +" \o Dec(it.start) \o ",4 @@"
      [] it.kind = "badhunk" -> "@@ binary @@"
      [] it.kind = "add" -> "+" \o it.text
      [] it.kind = "rem" -> "-" \o it.text
      [] it.kind = "ctx" -> " " \o it.text
      [] it.kind = "nonl" -> "\\ No newline at end of file"
      [] it.kind = "raw" -> it.text

\* line.startswith('diff --git')
IsFileHeader(line) == StartsWith(line, "diff --git")

\* line.startswith('@@'), tried after the file header test
IsHunkHeader(line) == ~IsFileHeader(line) /\ StartsWith(line, "@@")

\* line.startswith('+') and not line.startswith('+++')
IsAdded(line) ==
    /\ ~IsFileHeader(line) /\ ~StartsWith(line, "@@")
    /\ StartsWith(line, "+") /\ ~StartsWith(line, "+++")

\* line.startswith('-') and not line.startswith('---')
IsRemoved(line) ==
    /\ ~IsFileHeader(line) /\ ~StartsWith(line, "@@")
    /\ ~(StartsWith(line, "+") /\ ~StartsWith(line, "+++"))
    /\ StartsWith(line, "-") /\ ~StartsWith(line, "---")

\* the last elif: not line.startswith('\\')
IsCounted(line) ==
    /\ ~IsFileHeader(line) /\ ~StartsWith(line, "@@")
    /\ ~(StartsWith(line, "+") /\ ~StartsWith(line, "+++"))
    /\ ~(StartsWith(line, "-") /\ ~StartsWith(line, "---"))
    /\ ~StartsWith(line, "\\")

\* no branch of the chain is taken
IsIgnored(line) ==
    /\ ~IsFileHeader(line) /\ ~StartsWith(line, "@@")
    /\ ~(StartsWith(line, "+") /\ ~StartsWith(line, "+++"))
    /\ ~(StartsWith(line, "-") /\ ~StartsWith(line, "---"))
    /\ StartsWith(line, "\\")

\* parts = line.split(' '); current_file = parts[3][2:] when len(parts) >= 4
FileOfHeader(line, cur) ==
    LET parts == SplitSpace(line)
    IN IF Len(parts) >= 4 THEN DropPrefix(parts[4], 2) ELSE cur

\* re.search(r'\+(\d+)', line): the positions of a '+' followed by a digit
PlusDigitAt(line) ==
    {i \in 1 .. (Len(line) - 1) : Char(line, i) = "+" /\ Char(line, i + 1) \in Digits}

HunkCounterSkipsReset(line, n) ==
    IF PlusDigitAt(line) = {} THEN 0
    ELSE LET i == CHOOSE k \in PlusDigitAt(line) : \A j \in PlusDigitAt(line) : k <= j
         IN ToInt(SubSeq(line, i + 1, i + DigitRun(line, i + 1))) - 1

HunkCounterOffByOne(line, n) ==
    IF PlusDigitAt(line) = {} THEN n
    ELSE LET i == CHOOSE k \in PlusDigitAt(line) : \A j \in PlusDigitAt(line) : k <= j
         IN ToInt(SubSeq(line, i + 1, i + DigitRun(line, i + 1)))

\* if match: new_line_num = int(match.group(1)) - 1
HunkCounter(line, n) ==
    IF PlusDigitAt(line) = {} THEN n
    ELSE LET i == CHOOSE k \in PlusDigitAt(line) : \A j \in PlusDigitAt(line) : k <= j
         IN ToInt(SubSeq(line, i + 1, i + DigitRun(line, i + 1))) - 1

LineRecord(f, n, ty, c) == [file |-> f, line |-> n, type |-> ty, content |-> c]

\* a removed line leaves new_line_num as it is
RemovedCounter(n) == n

\* lines_info.append(...) under "if current_file:"
Emit(info, cur, n, ty, c) ==
    IF cur # "" THEN Append(info, LineRecord(cur, n, ty, c)) ELSE info

CountedRecordsEmitsContext(info, cur, n, c) == Emit(info, cur, n, "context", c)

\* lines_info after a line of the last elif: the branch appends nothing
CountedRecords(info, cur, n, c) == info

\* the example of a hunk: '@@ -5,3 +10,4 @@', one context line, one added line,
\* one removed line, one context line (in the section of a.py)
HunkExample ==
    << DiffItem("file", "a.py", 0, ""), DiffItem("hunk", "", 10, ""),
       DiffItem("ctx", "", 0, "z"), DiffItem("add", "", 0, "x"),
       DiffItem("rem", "", 0, "y"), DiffItem("ctx", "", 0, "z") >>

\* the diff texts handed to the indexer
DiffInputs ==
    UNION {[1 .. n -> DiffItems] : n \in 0 .. MaxDiffLines} \cup {HunkExample}

DiffInit ==
    /\ diff_src \in DiffInputs
    /\ dpos = 1
    /\ current_file = ""
    /\ new_line_num = 0
    /\ lines_info = <<>>
    /\ dpc = "loop"
    /\ changes = <<>> /\ file_analysis = <<>> /\ relationships = <<>> /\ gpos = 0
    /\ processed = {} /\ groups = <<>> /\ gpc = "idle"
    /\ gemini_file_path = "" /\ actual_file_paths = <<>> /\ normalized_file = ""
    /\ npc = "idle"
    /\ review = <<>> /\ file_lines = <<>> /\ rpos = 0 /\ suggestions = <<>>
    /\ unique_suggestions = <<>> /\ rpc = "idle"
    /\ commit_sha = "" /\ gen_outcome = "" /\ ipos = 0 /\ inline_count = 0 /\ requests = <<>> /\ notes = <<>> /\ returned = "" /\ ppc = "idle"
    /\ member_files = <<>> /\ group = <<>> /\ cpc = "idle"
    /\ mr_state = "" /\ all_commits = <<>> /\ all_changes = <<>> /\ mode = "" /\ work = <<>> /\ wpos = 0 /\ gi = 0 /\ mpc = "idle"

\* for line in diff_content.split('\n'): the loop takes the next line
ReadLine(it) ==
    /\ dpc = "loop"
    /\ dpos <= Len(diff_src)
    /\ it = diff_src[dpos]
    /\ dpos' = dpos + 1
    /\ UNCHANGED <<diff_src, groupVars, normVars, locVars, postVars, createVars, mainVars>>

FileHeaderLine ==
    \E it \in SeqRange(diff_src) :
        /\ ReadLine(it)
        /\ IsFileHeader(RenderLine(it))
        /\ current_file' = FileOfHeader(RenderLine(it), current_file)
        /\ UNCHANGED <<new_line_num, lines_info, dpc>>

HunkHeaderLine ==
    \E it \in SeqRange(diff_src) :
        /\ ReadLine(it)
        /\ IsHunkHeader(RenderLine(it))
        /\ new_line_num' = HunkCounter(RenderLine(it), new_line_num)
        /\ UNCHANGED <<current_file, lines_info, dpc>>

AddedLine ==
    \E it \in SeqRange(diff_src) :
        /\ ReadLine(it)
        /\ IsAdded(RenderLine(it))
        /\ new_line_num' = new_line_num + 1
        /\ lines_info' = Emit(lines_info, current_file, new_line_num + 1, "added",
                              DropPrefix(RenderLine(it), 1))
        /\ UNCHANGED <<current_file, dpc>>

RemovedLine ==
    \E it \in SeqRange(diff_src) :
        /\ ReadLine(it)
        /\ IsRemoved(RenderLine(it))
        /\ new_line_num' = RemovedCounter(new_line_num)
        /\ lines_info' = Emit(lines_info, current_file, new_line_num, "removed",
                              DropPrefix(RenderLine(it), 1))
        /\ UNCHANGED <<current_file, dpc>>

CountedLine ==
    \E it \in SeqRange(diff_src) :
        /\ ReadLine(it)
        /\ IsCounted(RenderLine(it))
        /\ new_line_num' = new_line_num + 1
        /\ lines_info' = CountedRecords(lines_info, current_file, new_line_num + 1,
                                        DropPrefix(RenderLine(it), 1))
        /\ UNCHANGED <<current_file, dpc>>

IgnoredLine ==
    \E it \in SeqRange(diff_src) :
        /\ ReadLine(it)
        /\ IsIgnored(RenderLine(it))
        /\ UNCHANGED <<current_file, new_line_num, lines_info, dpc>>

ReturnLinesInfo ==
    /\ dpc = "loop"
    /\ dpos > Len(diff_src)
    /\ dpc' = "done"
    /\ UNCHANGED <<diff_src, dpos, current_file, new_line_num, lines_info, groupVars, normVars, locVars,
                   postVars, createVars, mainVars>>

DiffNext ==
    \/ FileHeaderLine
    \/ HunkHeaderLine
    \/ AddedLine
    \/ RemovedLine
    \/ CountedLine
    \/ IgnoredLine
    \/ ReturnLinesInfo

(***************************************************************************)
(* Suggestion Locator: normalize_file_path.                                *)
(***************************************************************************)
\* the value None of normalize_file_path (no path of the model is this string)
None == "<None>"

\* the first path of ps, in iteration order, among the indexes idx; None when idx
\* is empty
FirstMatch(ps, idx) == IF idx = {} THEN None ELSE ps[Min(idx)]

\* os.path.basename(actual_path) == gemini_basename
SameName(cited, ps) == {i \in DOMAIN ps : Basename(ps[i]) = Basename(cited)}

\* gemini_file_path in actual_path or actual_path in gemini_file_path
Overlaps(cited, ps) == {i \in DOMAIN ps : Contains(ps[i], cited) \/ Contains(cited, ps[i])}

normalize_file_pathSubstringFirst(cited, paths) ==
    IF cited \in SeqRange(paths) THEN cited
    ELSE IF FirstMatch(paths, Overlaps(cited, paths)) # None THEN FirstMatch(paths, Overlaps(cited, paths))
    ELSE FirstMatch(paths, SameName(cited, paths))

normalize_file_pathKeepsCited(cited, paths) ==
    IF cited \in SeqRange(paths) THEN cited
    ELSE IF FirstMatch(paths, SameName(cited, paths)) # None THEN FirstMatch(paths, SameName(cited, paths))
    ELSE IF FirstMatch(paths, Overlaps(cited, paths)) # None THEN FirstMatch(paths, Overlaps(cited, paths))
    ELSE cited

\* exact match, then the loop over basenames, then the loop over substrings
normalize_file_path(cited, paths) ==
    IF cited \in SeqRange(paths) THEN cited
    ELSE IF FirstMatch(paths, SameName(cited, paths)) # None THEN FirstMatch(paths, SameName(cited, paths))
    ELSE FirstMatch(paths, Overlaps(cited, paths))

\* the paths a review may cite and a diff may index
PathPool ==
    {"src/utils/helper.js", "utils/helper.js", "helper.js", "helper.js.map",
     "lib/helper.js", "src/app.py", "app", "zz.rb"}

NoRepeat(sq) == \A i, j \in DOMAIN sq : i # j => sq[i] # sq[j]

\* the keys of a dict: distinct, in insertion order
KeySeqs == {sq \in UNION {[1 .. n -> PathPool] : n \in 0 .. MaxIndexed} : NoRepeat(sq)}

NormInit ==
    /\ gemini_file_path \in PathPool \cup {""}
    /\ actual_file_paths \in KeySeqs
    /\ normalized_file = None
    /\ npc = "call"
    /\ changes = <<>> /\ file_analysis = <<>> /\ relationships = <<>> /\ gpos = 0
    /\ processed = {} /\ groups = <<>> /\ gpc = "idle"
    /\ diff_src = <<>> /\ dpos = 0 /\ current_file = "" /\ new_line_num = 0
    /\ lines_info = <<>> /\ dpc = "idle"
    /\ review = <<>> /\ file_lines = <<>> /\ rpos = 0 /\ suggestions = <<>>
    /\ unique_suggestions = <<>> /\ rpc = "idle"
    /\ commit_sha = "" /\ gen_outcome = "" /\ ipos = 0 /\ inline_count = 0 /\ requests = <<>> /\ notes = <<>> /\ returned = "" /\ ppc = "idle"
    /\ member_files = <<>> /\ group = <<>> /\ cpc = "idle"
    /\ mr_state = "" /\ all_commits = <<>> /\ all_changes = <<>> /\ mode = "" /\ work = <<>> /\ wpos = 0 /\ gi = 0 /\ mpc = "idle"

NormalizeCall ==
    /\ npc = "call"
    /\ normalized_file' = normalize_file_path(gemini_file_path, actual_file_paths)
    /\ npc' = "done"
    /\ UNCHANGED <<gemini_file_path, actual_file_paths, groupVars, diffVars, locVars,
                   postVars, createVars, mainVars>>

NormNext == NormalizeCall

(***************************************************************************)
(* Suggestion Locator: parse_gemini_review_for_inline_comments.            *)
(*                                                                         *)
(* TLA+ strings are ASCII.  The non-ASCII characters of the source are     *)
(* written with one ASCII character each, none of which occurs otherwise   *)
(* in the texts of the model:                                              *)
(*    U+C758 -> "^"   U+B77C U+C778 -> "{" "}"   U+C5D0 -> "<"   U+C11C -> ">" *)
(*    U+2013 (en dash) -> "~"                                              *)
(* and the prefix put before a message (a robot emoji and '**Gemini        *)
(* <U+C81C U+C548>**: ') is written "**Gemini**: ".                        *)
(***************************************************************************)
Ui == "^"

RaIn == "{}"

Ei == "<"

Seo == ">"

EnDash == "~"

MessagePrefix == "**Gemini**: "

NoMatch == [ok |-> FALSE, file_path |-> "", digits |-> "", message |-> ""]

\* the last group, (.+) after the optional parts: from position m when something is
\* left there; when the optional parts ate the whole rest, backtracking hands (.+)
\* the last character of the line
LastGroup(line, m) == IF m <= Len(line) THEN DropPrefix(line, m - 1) ELSE Char(line, Len(line))

\* re.match(r'([^:]+):(\d+)\s*[-<en dash>]\s*(.+)', line)
FileLineMatch(line) ==
    IF PositionsOf(line, ":") = {} THEN NoMatch
    ELSE LET c == Min(PositionsOf(line, ":"))
             d == RunOf(line, c + 1, Digits)
             dash == c + 1 + d + RunOf(line, c + 1 + d, SpaceChars)
             m == dash + 1 + RunOf(line, dash + 1, SpaceChars)
         IN IF c >= 2 /\ d >= 1 /\ dash < Len(line) /\ Char(line, dash) \in {"-", EnDash}
            THEN [ok |-> TRUE,
                  file_path |-> Strip(SubSeq(line, 1, c - 1)),
                  digits |-> SubSeq(line, c + 1, c + d),
                  message |-> Strip(LastGroup(line, m))]
            ELSE NoMatch

\* where the digits of the narrative form start when the text from position p on
\* matches  U+C758? \s* U+B77C U+C778 \s* (\d+) U+C5D0 ... (.+),  0 when it does not
NarrativeDigitsAt(line, p) ==
    LET p1 == IF p <= Len(line) /\ Char(line, p) = Ui THEN p + 1 ELSE p
        q == p1 + RunOf(line, p1, SpaceChars)
        r == q + 2 + RunOf(line, q + 2, SpaceChars)
        d == RunOf(line, r, Digits)
    IN IF /\ q + 1 <= Len(line) /\ SubSeq(line, q, q + 1) = RaIn
          /\ d >= 1
          /\ r + d < Len(line) /\ Char(line, r + d) = Ei
       THEN r ELSE 0

\* the positions e such that the text after e matches the rest of the narrative form
NarrativeEnds(line) == {e \in 1 .. Len(line) : NarrativeDigitsAt(line, e + 1) # 0}

\* the pairs (s, e) such that ([^U+C758]+) can be line[s..e] in a match
NarrativeGroups(line) ==
    LET ends == NarrativeEnds(line)
    IN {se \in (1 .. Len(line)) \X ends :
           /\ se[1] <= se[2]
           /\ \A k \in se[1] .. se[2] : Char(line, k) # Ui}

\* re.search(r'([^U+C758]+)U+C758?\s*U+B77C U+C778\s*(\d+)U+C5D0 U+C11C?\s*[:-]?\s*(.+)', line):
\* the leftmost start, the longest first group, then every optional part taken
NarrativeMatch(line) ==
    LET G == NarrativeGroups(line) IN
    IF G = {} THEN NoMatch
    ELSE LET s == Min({se[1] : se \in G})
             e == Max({se[2] : se \in {x \in G : x[1] = s}})
             r == NarrativeDigitsAt(line, e + 1)
             d == RunOf(line, r, Digits)
             t == r + d + 1
             t1 == IF Char(line, t) = Seo THEN t + 1 ELSE t
             t2 == t1 + RunOf(line, t1, SpaceChars)
             t3 == IF t2 <= Len(line) /\ Char(line, t2) \in {":", "-"} THEN t2 + 1 ELSE t2
             m == t3 + RunOf(line, t3, SpaceChars)
         IN [ok |-> TRUE,
             file_path |-> Strip(SubSeq(line, s, e)),
             digits |-> SubSeq(line, r, r + d - 1),
             message |-> Strip(LastGroup(line, m))]

Suggestion(f, n, msg) == [file |-> f, line |-> n, message |-> MessagePrefix \o msg]

\* the suggestions one match appends: one when the path resolves and the message is
\* not empty ("if normalized_file and message")
Candidate(mt, keys) ==
    IF ~mt.ok THEN <<>>
    ELSE LET normalized == normalize_file_path(mt.file_path, keys)
         IN IF normalized \notin {None, ""} /\ mt.message # ""
            THEN <<Suggestion(normalized, ToInt(mt.digits), mt.message)>>
            ELSE <<>>

\* the loop "for info in line_info" that fills file_lines: its keys
RECURSIVE IndexedFiles(_)
IndexedFiles(info) ==
    IF info = <<>> THEN <<>>
    ELSE LET before == IndexedFiles(SubSeq(info, 1, Len(info) - 1))
             f == info[Len(info)].file
         IN IF f \in SeqRange(before) THEN before ELSE Append(before, f)

RECURSIVE UniqueKeepsLast(_)
UniqueKeepsLast(sugs) ==
    IF sugs = <<>> THEN <<>>
    ELSE LET rest == UniqueKeepsLast(Tail(sugs))
         IN IF \E k \in 2 .. Len(sugs) :
                   sugs[k].file = sugs[1].file /\ sugs[k].line = sugs[1].line
            THEN rest
            ELSE <<sugs[1]>> \o rest

\* the loop "for suggestion in suggestions" with the set seen
RECURSIVE Unique(_)
Unique(sugs) ==
    IF sugs = <<>> THEN <<>>
    ELSE LET before == Unique(SubSeq(sugs, 1, Len(sugs) - 1))
             last == sugs[Len(sugs)]
         IN IF \E k \in DOMAIN before :
                   before[k].file = last.file /\ before[k].line = last.line
            THEN before
            ELSE Append(before, last)

\* the lines a review may hold
ReviewLinePool ==
    { "a.py:11 - use a constant",
      "src/a.py:11 ~ rename x",
      "  a.py:11 - again  ",
      "zz.rb:3 - no such file",
      "b.py^ {} 7<> fix it",
      "a.py:3 - b.py^{}4<:",
      "looks fine",
      "" }

\* the combined diffs handed over with a review: none, the hunk example, a diff
\* without a 'diff --git' header, and two file sections with every kind of line
LocatorDiffs ==
    { <<>>,
      HunkExample,
      << DiffItem("hunk", "", 10, ""), DiffItem("add", "", 0, "x") >>,
      << DiffItem("file", "b.py", 0, ""), DiffItem("badhunk", "", 0, ""),
         DiffItem("rem", "", 0, "y"), DiffItem("nonl", "", 0, ""),
         DiffItem("file", "a.py", 0, ""), DiffItem("hunk", "", 10, ""),
         DiffItem("add", "", 0, "x"), DiffItem("ctx", "", 0, "z") >> }

LocInit ==
    /\ review \in UNION {[1 .. n -> ReviewLinePool] : n \in 0 .. MaxReviewLines}
    /\ diff_src \in LocatorDiffs
    /\ dpos = 1 /\ current_file = "" /\ new_line_num = 0 /\ lines_info = <<>>
    /\ dpc = "loop"
    /\ file_lines = <<>> /\ rpos = 1 /\ suggestions = <<>> /\ unique_suggestions = <<>>
    /\ rpc = "index"
    /\ changes = <<>> /\ file_analysis = <<>> /\ relationships = <<>> /\ gpos = 0
    /\ processed = {} /\ groups = <<>> /\ gpc = "idle"
    /\ gemini_file_path = "" /\ actual_file_paths = <<>> /\ normalized_file = ""
    /\ npc = "idle"
    /\ commit_sha = "" /\ gen_outcome = "" /\ ipos = 0 /\ inline_count = 0 /\ requests = <<>> /\ notes = <<>> /\ returned = "" /\ ppc = "idle"
    /\ member_files = <<>> /\ group = <<>> /\ cpc = "idle"
    /\ mr_state = "" /\ all_commits = <<>> /\ all_changes = <<>> /\ mode = "" /\ work = <<>> /\ wpos = 0 /\ gi = 0 /\ mpc = "idle"

\* line_info = parse_diff_for_line_info(combined_diff) has returned; fill file_lines
IndexFiles ==
    /\ rpc = "index"
    /\ dpc = "done"
    /\ file_lines' = IndexedFiles(lines_info)
    /\ rpc' = "loop"
    /\ UNCHANGED <<review, rpos, suggestions, unique_suggestions, groupVars, diffVars,
                   normVars, postVars, createVars, mainVars>>

\* "if not line: continue" after line.strip()
SkipBlankLine ==
    /\ rpc = "loop"
    /\ rpos <= Len(review)
    /\ Strip(review[rpos]) = ""
    /\ rpos' = rpos + 1
    /\ UNCHANGED <<review, file_lines, suggestions, unique_suggestions, rpc, groupVars,
                   diffVars, normVars, postVars, createVars, mainVars>>

\* both patterns are tried on the stripped line, each may append a suggestion
ScanLine ==
    /\ rpc = "loop"
    /\ rpos <= Len(review)
    /\ Strip(review[rpos]) # ""
    /\ LET line == Strip(review[rpos])
       IN suggestions' = suggestions \o Candidate(FileLineMatch(line), file_lines)
                                     \o Candidate(NarrativeMatch(line), file_lines)
    /\ rpos' = rpos + 1
    /\ UNCHANGED <<review, file_lines, unique_suggestions, rpc, groupVars, diffVars,
                   normVars, postVars, createVars, mainVars>>

\* the duplicates are dropped and unique_suggestions is returned
ReturnSuggestions ==
    /\ rpc = "loop"
    /\ rpos > Len(review)
    /\ unique_suggestions' = Unique(suggestions)
    /\ rpc' = "done"
    /\ UNCHANGED <<review, file_lines, rpos, suggestions, groupVars, diffVars, normVars,
                   postVars, createVars, mainVars>>

LocNext ==
    \/ FileHeaderLine
    \/ HunkHeaderLine
    \/ AddedLine
    \/ RemovedLine
    \/ CountedLine
    \/ IgnoredLine
    \/ ReturnLinesInfo
    \/ IndexFiles
    \/ SkipBlankLine
    \/ ScanLine
    \/ ReturnSuggestions

(***************************************************************************)
(* create_file_group on its own: called with members of every role.        *)
(***************************************************************************)
MaxMembers == 3

\* one changed file of each type determine_file_type can give
RolePool ==
    { [path |-> "UserService.java", diff |-> <<>>],
      [path |-> "UserServiceTest.java", diff |-> <<>>],
      [path |-> "application.yml", diff |-> <<>>],
      [path |-> "README.md", diff |-> <<>>],
      [path |-> "schema.sql", diff |-> <<>>],
      [path |-> "Makefile", diff |-> <<>>] }

CreateInit ==
    /\ member_files \in UNION {[1 .. n -> RolePool] : n \in 1 .. MaxMembers}
    /\ group = <<>> /\ cpc = "call"
    /\ changes = <<>> /\ file_analysis = <<>> /\ relationships = <<>> /\ gpos = 0
    /\ processed = {} /\ groups = <<>> /\ gpc = "idle"
    /\ diff_src = <<>> /\ dpos = 0 /\ current_file = "" /\ new_line_num = 0
    /\ lines_info = <<>> /\ dpc = "idle"
    /\ gemini_file_path = "" /\ actual_file_paths = <<>> /\ normalized_file = ""
    /\ npc = "idle"
    /\ review = <<>> /\ file_lines = <<>> /\ rpos = 0 /\ suggestions = <<>>
    /\ unique_suggestions = <<>> /\ rpc = "idle"
    /\ commit_sha = "" /\ gen_outcome = "" /\ ipos = 0 /\ inline_count = 0
    /\ requests = <<>> /\ notes = <<>> /\ returned = "" /\ ppc = "idle"
    /\ mr_state = "" /\ all_commits = <<>> /\ all_changes = <<>> /\ mode = "" /\ work = <<>> /\ wpos = 0 /\ gi = 0 /\ mpc = "idle"

\* create_file_group(main_file, related_files, file_analysis), the analysis being
\* that of the members and the main file the first member
CreateGroup ==
    /\ cpc = "call"
    /\ group' = create_file_group(PathOf(member_files[1]), member_files,
                                  FileAnalysisOf(member_files))
    /\ cpc' = "done"
    /\ UNCHANGED <<member_files, groupVars, diffVars, normVars, locVars, postVars, mainVars>>

CreateNext == CreateGroup

(***************************************************************************)
(* Review poster: review_with_gemini_cli, post_mr_comment,                 *)
(* post_inline_comment, post_combined_review.  The generator's processes   *)
(* and the notes endpoint are the environment: how a process ends and how  *)
(* a request ends are chosen by the step that starts it.                   *)
(***************************************************************************)
\* Python: s.split('\n')
RECURSIVE SplitLines(_)
SplitLines(s) ==
    IF \A i \in 1 .. Len(s) : Char(s, i) # "\n" THEN <<s>>
    ELSE LET i == Min({k \in 1 .. Len(s) : Char(s, k) = "\n"})
         IN <<SubSeq(s, 1, i - 1)>> \o SplitLines(DropPrefix(s, i))

\* the texts of the messages review_with_gemini_cli returns on failure (the
\* Korean wording is rendered in ASCII, punctuation kept)
FailedPrefix == "! Gemini CLI failed: "

UnknownError == "unknown error"

TimeoutMessage == "! Gemini CLI timed out."

MissingMessage == "! Gemini CLI is not installed."

UnexpectedPrefix == "! unexpected error: "

\* one subprocess.run: the process exits with a return code, or run raises
\* TimeoutExpired, FileNotFoundError or another exception
Exit(rc, out, err) == [kind |-> "exit", rc |-> rc, stdout |-> out, stderr |-> err]

Raises(what) == [kind |-> what, rc |-> 0 - 1, stdout |-> "", stderr |-> ""]

\* what the generator may print on success
Stdouts ==
    { "looks fine",
      "a.py:11 - use a constant\n",
      "  a.py:11 - use a constant\n\nb.py^ {} 7<> fix it\na.py:11 - again" }

Stderrs == {"", "a.py:11 - quota\n"}

FirstRuns ==
    {Exit(0, o, "") : o \in Stdouts} \cup {Exit(1, "", e) : e \in Stderrs}
        \cup {Raises("timeout"), Raises("missing"), Raises("error")}

\* the retry over standard input; an exception of any kind is caught alike
SecondRuns ==
    {Exit(0, o, "") : o \in Stdouts} \cup {Exit(1, "", "")} \cup {Raises("timeout")}

\* error_msg = result.stderr.strip() if result.stderr else <unknown error>
ErrorMsg(run) == IF run.stderr # "" THEN Strip(run.stderr) ELSE UnknownError

\* the string review_with_gemini_cli returns: it returns a message, and raises
\* nothing, whenever the generator fails
review_with_gemini_cli(run1, run2) ==
    CASE run1.kind = "exit" /\ run1.rc = 0 -> Strip(run1.stdout)
      [] run1.kind = "exit" /\ run1.rc # 0 ->
            IF run2.kind = "exit" /\ run2.rc = 0 THEN Strip(run2.stdout)
            ELSE FailedPrefix \o ErrorMsg(run1)
      [] run1.kind = "timeout" -> TimeoutMessage
      [] run1.kind = "missing" -> MissingMessage
      [] OTHER -> UnexpectedPrefix \o "boom"

\* whether a generator process printed the review: "ok", or how the call failed
GeneratorOutcome(run1, run2) ==
    CASE run1.kind = "exit" /\ run1.rc = 0 -> "ok"
      [] run1.kind = "exit" /\ run1.rc # 0 ->
            IF run2.kind = "exit" /\ run2.rc = 0 THEN "ok" ELSE "exit_nonzero"
      [] OTHER -> run1.kind

\* how a POST to the notes endpoint ends: the note is created; the platform answers
\* with an error status (raise_for_status raises HTTPError); the request itself
\* fails (requests.post raises ConnectionError or Timeout, which are no HTTPError)
RequestOutcomes == {"created", "http_error", "connection_error"}

NoteRequest(kind, body, file, line, outcome) ==
    [kind |-> kind, body |-> body, file |-> file, line |-> line, outcome |-> outcome]

\* post_mr_comment(body): the request sent, and whether the call raises
post_mr_comment(body, outcome) ==
    [requests |-> <<NoteRequest("plain", body, "", 0, outcome)>>,
     raised |-> outcome # "created"]

\* fallback_comment of post_inline_comment (the backquotes around the path are
\* written as quotes)
FallbackBody(file_path, line_number, comment_text) ==
    "**File: '" \o file_path \o "' (" \o RaIn \o " " \o Dec(line_number) \o ")**\n\n"
        \o comment_text

\* post_inline_comment: the requests sent, and whether the call raises.  Only
\* HTTPError is caught; the handler posts the fallback, whose exception escapes.
post_inline_comment(file_path, line_number, comment_text, first, second) ==
    LET inline == NoteRequest("inline", comment_text, file_path, line_number, first)
        fallback == post_mr_comment(
                        FallbackBody(file_path, line_number, comment_text), second)
    IN CASE first = "created" -> [requests |-> <<inline>>, raised |-> FALSE]
         [] first = "http_error" ->
               [requests |-> <<inline>> \o fallback.requests, raised |-> fallback.raised]
         [] OTHER -> [requests |-> <<inline>>, raised |-> TRUE]

\* marker_comment of post_combined_review
MarkerComment(sha) == "<!-- REVIEWED_COMMIT:" \o sha \o " -->"

\* the bodies of the notes the requests created
RECURSIVE Created(_)
Created(reqs) ==
    IF reqs = <<>> THEN <<>>
    ELSE IF reqs[1].outcome = "created"
         THEN <<reqs[1].body>> \o Created(Tail(reqs))
         ELSE Created(Tail(reqs))

\* re.findall(r'<!-- REVIEWED_COMMIT:([a-f0-9]+) -->', body) over the notes, for
\* the commit ids of the model
get_reviewed_commits(bodies, shas) ==
    {sha \in shas : \E k \in DOMAIN bodies : Contains(bodies[k], MarkerComment(sha))}

CommitShas == {"3f2a", "9c0d"}

\* the combined diffs of a group under review
PostDiffs ==
    { HunkExample,
      << DiffItem("file", "b.py", 0, ""), DiffItem("hunk", "", 10, ""),
         DiffItem("add", "", 0, "x"),
         DiffItem("file", "a.py", 0, ""), DiffItem("hunk", "", 10, ""),
         DiffItem("add", "", 0, "x"), DiffItem("nonl", "", 0, "") >> }

PostInit ==
    /\ commit_sha \in CommitShas
    /\ diff_src \in PostDiffs
    /\ gen_outcome = "" /\ ipos = 0 /\ inline_count = 0 /\ requests = <<>>
    /\ notes = <<>> /\ returned = "" /\ ppc = "call"
    /\ dpos = 1 /\ current_file = "" /\ new_line_num = 0 /\ lines_info = <<>>
    /\ dpc = "idle"
    /\ review = <<>> /\ file_lines = <<>> /\ rpos = 1 /\ suggestions = <<>>
    /\ unique_suggestions = <<>> /\ rpc = "idle"
    /\ changes = <<>> /\ file_analysis = <<>> /\ relationships = <<>> /\ gpos = 0
    /\ processed = {} /\ groups = <<>> /\ gpc = "idle"
    /\ gemini_file_path = "" /\ actual_file_paths = <<>> /\ normalized_file = ""
    /\ npc = "idle"
    /\ member_files = <<>> /\ group = <<>> /\ cpc = "idle"
    /\ mr_state = "" /\ all_commits = <<>> /\ all_changes = <<>> /\ mode = "" /\ work = <<>> /\ wpos = 0 /\ gi = 0 /\ mpc = "idle"

\* review = review_with_gemini_cli(combined_diff, full_prompt); the review is then
\* handed to parse_gemini_review_for_inline_comments with the combined diff
CallGenerator ==
    /\ ppc = "call"
    /\ \E run1 \in FirstRuns, run2 \in SecondRuns :
          /\ (run1.kind = "exit" /\ run1.rc # 0) \/ run2 = Exit(1, "", "")
          /\ review' = SplitLines(review_with_gemini_cli(run1, run2))
          /\ gen_outcome' = GeneratorOutcome(run1, run2)
    /\ dpc' = "loop"
    /\ rpc' = "index"
    /\ ipos' = 1
    /\ ppc' = "parse"
    /\ UNCHANGED <<commit_sha, inline_count, requests, notes, returned, diff_src, dpos,
                   current_file, new_line_num, lines_info, file_lines, rpos, suggestions,
                   unique_suggestions, groupVars, normVars, createVars, mainVars>>

\* one pass of "for suggestion in inline_suggestions": the call either returns
\* (inline_count += 1) or raises, which the loop catches before it continues
PostSuggestion ==
    /\ ppc = "parse"
    /\ rpc = "done"
    /\ ipos <= Len(unique_suggestions)
    /\ \E first \in RequestOutcomes, second \in RequestOutcomes :
          /\ first = "http_error" \/ second = "created"
          /\ LET sg == unique_suggestions[ipos]
                 call == post_inline_comment(sg.file, sg.line, sg.message, first, second)
             IN /\ requests' = requests \o call.requests
                /\ notes' = notes \o Created(call.requests)
                /\ inline_count' = IF call.raised THEN inline_count ELSE inline_count + 1
    /\ ipos' = ipos + 1
    /\ UNCHANGED <<commit_sha, gen_outcome, returned, ppc, groupVars, diffVars, normVars,
                   locVars, createVars, mainVars>>

\* post_mr_comment(marker_comment) after the loop; an exception of it is caught by
\* the outer handler, which returns False
PostMarker ==
    /\ ppc = "parse"
    /\ rpc = "done"
    /\ ipos > Len(unique_suggestions)
    /\ \E outcome \in RequestOutcomes :
          LET call == post_mr_comment(MarkerComment(commit_sha), outcome)
          IN /\ requests' = requests \o call.requests
             /\ notes' = notes \o Created(call.requests)
             /\ returned' = IF call.raised THEN "False" ELSE "True"
    /\ ppc' = "done"
    /\ UNCHANGED <<commit_sha, gen_outcome, ipos, inline_count, groupVars, diffVars,
                   normVars, locVars, createVars, mainVars>>

PostNext ==
    \/ CallGenerator
    \/ FileHeaderLine
    \/ HunkHeaderLine
    \/ AddedLine
    \/ RemovedLine
    \/ CountedLine
    \/ IgnoredLine
    \/ ReturnLinesInfo
    \/ IndexFiles
    \/ SkipBlankLine
    \/ ScanLine
    \/ ReturnSuggestions
    \/ PostSuggestion
    \/ PostMarker

(***************************************************************************)
(* Orchestrator: main, from the fetched merge request to the review of     *)
(* every group.  It chooses between the incremental and the full review,   *)
(* groups the changes of each commit under review                          *)
(* (advanced_group_related_files), assembles the combined diff of each     *)
(* group and hands it to post_combined_review.                             *)
(***************************************************************************)
MaxCommits == 4

\* the id of the i-th commit of the merge request, the newest being the first
CommitId(i) == Dec(i) \o "f2a"

MrStates == {"opened", "merged"}

\* the changes a merge request may hold, diffs as the lines of the 'diff' field:
\* one that starts at its hunk header, one that carries a 'diff --git' line, one
\* without text
MainChanges ==
    LET a == [path |-> "a.py", diff |-> <<"@@ -5,3 +10,4 @@", "+x">>]
        b == [path |-> "b.py",
              diff |-> <<"diff --git a/b.py b/b.py", "@@ -5,3 +10,4 @@", "+import a",
                         "-y", "\\ No newline at end of file">>]
        readme == [path |-> "README.md", diff |-> <<>>]
    IN {<<>>, <<a>>, <<b, a>>, <<readme>>}

should_review_incrementally(state, commits) ==
    IF state = "opened" /\ Len(commits) <= 3 THEN FALSE
    ELSE IF Len(commits) > 5 THEN TRUE
    ELSE TRUE

\* the commit diff the repository serves: the newest commit carries the changes of
\* the merge request, the older ones change no file; a failed request leaves the
\* commit without changes ("except Exception: continue")
CommitDiff(sha, chs, commits, served) ==
    IF sha = commits[1] /\ served THEN chs ELSE <<>>

\* filter_new_changes with a non-empty reviewed_commits: the commits without a
\* marker, each with the changes fetched for it (their commit_sha tag)
filter_new_changes(chs, commits, reviewed, served) ==
    LET new_commits == SelectSeq(commits, LAMBDA c : c \notin reviewed)
    IN [k \in DOMAIN new_commits |->
           [commit_sha |-> new_commits[k],
            changes |-> CommitDiff(new_commits[k], chs, commits, served)]]

\* group_changes_by_commit: one entry per commit_sha that tags a change, in order
group_changes_by_commit(fetched) == SelectSeq(fetched, LAMBDA w : w.changes # <<>>)

\* the header main writes before a member's diff ("File" stands for the Korean word)
SectionHeader(filename) == "### File: " \o filename

\* the lines "\n### File: {filename}\n{diff}\n" adds to combined_diff for every
\* member with a diff ("if diff:"), after the empty first line
RECURSIVE CombinedLines(_)
CombinedLines(files) ==
    IF files = <<>> THEN <<>>
    ELSE LET f == Head(files)
         IN (IF f.diff # <<>> THEN <<SectionHeader(PathOf(f))>> \o f.diff \o <<"">>
             ELSE <<>>)
            \o CombinedLines(Tail(files))

\* combined_diff.split('\n'), each line as an item of the indexer's input
CombinedDiff(files) ==
    LET ls == <<"">> \o CombinedLines(files)
    IN [i \in DOMAIN ls |-> DiffItem("raw", "", 0, ls[i])]

MainInit ==
    /\ mr_state \in MrStates
    /\ all_changes \in MainChanges
    /\ \E n \in 1 .. MaxCommits, k \in 0 .. MaxCommits :
          /\ k <= n
          /\ all_commits = [i \in 1 .. n |-> CommitId(i)]
          /\ notes = [j \in 1 .. k |-> MarkerComment(CommitId(n - k + j))]
    /\ mode = "" /\ work = <<>> /\ wpos = 0 /\ gi = 0 /\ mpc = "start"
    /\ changes = <<>> /\ file_analysis = <<>> /\ relationships = <<>> /\ gpos = 0
    /\ processed = {} /\ groups = <<>> /\ gpc = "idle"
    /\ diff_src = <<>> /\ dpos = 0 /\ current_file = "" /\ new_line_num = 0
    /\ lines_info = <<>> /\ dpc = "idle"
    /\ gemini_file_path = "" /\ actual_file_paths = <<>> /\ normalized_file = ""
    /\ npc = "idle"
    /\ review = <<>> /\ file_lines = <<>> /\ rpos = 0 /\ suggestions = <<>>
    /\ unique_suggestions = <<>> /\ rpc = "idle"
    /\ commit_sha = "" /\ gen_outcome = "" /\ ipos = 0 /\ inline_count = 0
    /\ requests = <<>> /\ returned = "" /\ ppc = "idle"
    /\ member_files = <<>> /\ group = <<>> /\ cpc = "idle"

\* "if not all_changes: return"
ReturnNoChanges ==
    /\ mpc = "start"
    /\ all_changes = <<>>
    /\ mpc' = "done"
    /\ UNCHANGED <<mr_state, all_commits, all_changes, mode, work, wpos, gi, groupVars,
                   diffVars, normVars, locVars, postVars, createVars>>

\* get_reviewed_commits (an empty set when the notes request fails),
\* should_review_incrementally, then the branch: the incremental one filters the
\* new changes and returns when there are none, the other reviews all_changes
\* under latest_commit_sha
SelectMode ==
    /\ mpc = "start"
    /\ all_changes # <<>>
    /\ \E fetched \in BOOLEAN, served \in BOOLEAN :
          LET ids == {all_commits[i] : i \in DOMAIN all_commits}
              reviewed_commits == IF fetched THEN get_reviewed_commits(notes, ids) ELSE {}
              incremental_review == should_review_incrementally(mr_state, all_commits)
              commit_groups ==
                  group_changes_by_commit(
                      filter_new_changes(all_changes, all_commits, reviewed_commits, served))
          IN IF incremental_review /\ reviewed_commits # {}
             THEN /\ mode' = "incremental"
                  /\ work' = commit_groups
                  /\ mpc' = IF commit_groups = <<>> THEN "done" ELSE "commit"
             ELSE /\ mode' = "full"
                  /\ work' = <<[commit_sha |-> all_commits[1], changes |-> all_changes]>>
                  /\ mpc' = "commit"
    /\ wpos' = 1
    /\ UNCHANGED <<mr_state, all_commits, all_changes, gi, groupVars, diffVars, normVars,
                   locVars, postVars, createVars>>

\* file_groups = advanced_group_related_files(...) for the next commit under review
StartCommit ==
    /\ mpc = "commit"
    /\ wpos <= Len(work)
    /\ changes' = work[wpos].changes
    /\ file_analysis' = <<>> /\ relationships' = <<>> /\ gpos' = 1
    /\ processed' = {} /\ groups' = <<>> /\ gpc' = "start"
    /\ gi' = 1
    /\ mpc' = "groups"
    /\ UNCHANGED <<mr_state, all_commits, all_changes, mode, work, wpos, diffVars,
                   normVars, locVars, postVars, createVars>>

\* the loop over file_groups takes a group whose members have diff text: the
\* combined diff is assembled and post_combined_review is called with it
AssembleDiff ==
    /\ mpc = "groups" /\ gpc = "done" /\ ppc \in {"idle", "done"}
    /\ gi <= Len(groups)
    /\ CombinedLines(groups[gi].files) # <<>>
    /\ diff_src' = CombinedDiff(groups[gi].files)
    /\ dpos' = 1 /\ current_file' = "" /\ new_line_num' = 0 /\ lines_info' = <<>>
    /\ dpc' = "idle"
    /\ review' = <<>> /\ file_lines' = <<>> /\ rpos' = 1 /\ suggestions' = <<>>
    /\ unique_suggestions' = <<>> /\ rpc' = "idle"
    /\ commit_sha' = work[wpos].commit_sha
    /\ ipos' = 0 /\ inline_count' = 0 /\ returned' = "" /\ ppc' = "call"
    /\ gi' = gi + 1
    /\ UNCHANGED <<mr_state, all_commits, all_changes, mode, work, wpos, mpc, gen_outcome,
                   requests, notes, groupVars, normVars, createVars>>

\* "if not combined_diff: continue"
SkipEmptyGroup ==
    /\ mpc = "groups" /\ gpc = "done" /\ ppc \in {"idle", "done"}
    /\ gi <= Len(groups)
    /\ CombinedLines(groups[gi].files) = <<>>
    /\ gi' = gi + 1
    /\ UNCHANGED <<mr_state, all_commits, all_changes, mode, work, wpos, mpc, groupVars,
                   diffVars, normVars, locVars, postVars, createVars>>

\* the groups of the commit are exhausted: the loop over the commits goes on
FinishCommit ==
    /\ mpc = "groups" /\ gpc = "done" /\ ppc \in {"idle", "done"}
    /\ gi > Len(groups)
    /\ wpos' = wpos + 1
    /\ mpc' = "commit"
    /\ UNCHANGED <<mr_state, all_commits, all_changes, mode, work, gi, groupVars,
                   diffVars, normVars, locVars, postVars, createVars>>

ReturnMain ==
    /\ mpc = "commit"
    /\ wpos > Len(work)
    /\ mpc' = "done"
    /\ UNCHANGED <<mr_state, all_commits, all_changes, mode, work, wpos, gi, groupVars,
                   diffVars, normVars, locVars, postVars, createVars>>

MainNext ==
    \/ ReturnNoChanges
    \/ SelectMode
    \/ StartCommit
    \/ AnalyzeFiles
    \/ SkipProcessed
    \/ EmitGroup
    \/ ReturnGroups
    \/ AssembleDiff
    \/ SkipEmptyGroup
    \/ CallGenerator
    \/ FileHeaderLine
    \/ HunkHeaderLine
    \/ AddedLine
    \/ RemovedLine
    \/ CountedLine
    \/ IgnoredLine
    \/ ReturnLinesInfo
    \/ IndexFiles
    \/ SkipBlankLine
    \/ ScanLine
    \/ ReturnSuggestions
    \/ PostSuggestion
    \/ PostMarker
    \/ FinishCommit
    \/ ReturnMain

(***************************************************************************)
(* Specifications: one per component; each Init leaves the others idle.    *)
(***************************************************************************)
SpecGroup == GroupInit /\ [][GroupNext]_vars

SpecDiff == DiffInit /\ [][DiffNext]_vars

SpecNorm == NormInit /\ [][NormNext]_vars

SpecLocate == LocInit /\ [][LocNext]_vars

SpecPost == PostInit /\ [][PostNext]_vars

SpecCreate == CreateInit /\ [][CreateNext]_vars

SpecMain == MainInit /\ [][MainNext]_vars

(***************************************************************************)
(* Claims about the Group Assembler.                                       *)
(***************************************************************************)
DistinctPaths(chs) ==
    \A i, j \in DOMAIN chs : i # j => PathOf(chs[i]) # PathOf(chs[j])

GroupPaths(g) == {PathOf(g.files[i]) : i \in DOMAIN g.files}

\* C1: for changed files with distinct paths, no changed file is a member of two
\* different groups returned by advanced_group_related_files.
C1_NoFileInTwoGroups ==
    (gpc = "done" /\ DistinctPaths(changes))
        => \A i, j \in DOMAIN groups :
              i # j => GroupPaths(groups[i]) \cap GroupPaths(groups[j]) = {}

\* C2: every changed file is a member of at least one returned group, each seed file
\* is a member of its own group, and every member of every group is one of the
\* supplied changed files.
C2_GroupsCoverChanges ==
    gpc = "done"
        => /\ \A i \in DOMAIN changes :
                 \E k \in DOMAIN groups : changes[i] \in SeqRange(groups[k].files)
           /\ \A k \in DOMAIN groups :
                 /\ groups[k].main_file \in GroupPaths(groups[k])
                 /\ SeqRange(groups[k].files) \subseteq SeqRange(changes)

\* the assembler has returned a group of several files and a group of one file
C2_Witness ==
    /\ gpc = "done"
    /\ \E k \in DOMAIN groups : Len(groups[k].files) >= 2
    /\ \E k \in DOMAIN groups : Len(groups[k].files) = 1

ScenarioPaths == {"UserService.java", "UserServiceTest.java", "application.yml"}

\* C3: for the changed files UserService.java, UserServiceTest.java, application.yml
\* (nothing extracted from their diffs), in whatever order, the files classify as
\* source, test and config, exactly one group is returned, it holds all three files
\* and its type is 'comprehensive'.
C3_ScenarioOneComprehensiveGroup ==
    (gpc = "done" /\ Len(changes) = 3 /\ DistinctPaths(changes)
        /\ {PathOf(changes[i]) : i \in DOMAIN changes} = ScenarioPaths)
        => /\ file_analysis["UserService.java"].type = "source"
           /\ file_analysis["UserServiceTest.java"].type = "test"
           /\ file_analysis["application.yml"].type = "config"
           /\ Len(groups) = 1
           /\ GroupPaths(groups[1]) = ScenarioPaths
           /\ groups[1].type = "comprehensive"

\* C14: in the relationship map, edges come in inverse pairs: b is in a's 'tests'
\* bucket iff a is in b's 'tested_by' bucket, likewise 'imports' / 'imported_by' and
\* 'configs' / 'configured_by'; no file is in one of its own buckets.
C14_InverseEdges ==
    gpc \in {"loop", "done"} =>
        \A a \in DOMAIN relationships :
            /\ \A k \in BucketNames : a \notin relationships[a][k]
            /\ \A b \in DOMAIN relationships :
                  /\ b \in relationships[a].tests <=> a \in relationships[b].tested_by
                  /\ b \in relationships[a].imports <=> a \in relationships[b].imported_by
                  /\ b \in relationships[a].configs <=> a \in relationships[b].configured_by

\* the map of app/main.py, app/helper.py and application.yml holds an import edge
\* and a config edge
C14_Witness ==
    /\ gpc = "done"
    /\ "app/main.py" \in DOMAIN relationships
    /\ "app/helper.py" \in relationships["app/main.py"].imports
    /\ \E a \in DOMAIN relationships : relationships[a].configs # {}

\* the changed files the claim expects in the group of seed: the seed, the files in
\* any bucket of the seed, and the files in a tests / tested_by / imports /
\* imported_by bucket of a file in a bucket of the seed
ExpectedRelated(seed) ==
    {y \in {PathOf(changes[i]) : i \in DOMAIN changes} :
        \/ y = seed
        \/ \E k \in BucketNames : y \in relationships[seed][k]
        \/ \E x \in DOMAIN relationships, k \in BucketNames,
               h \in {"tests", "tested_by", "imports", "imported_by"} :
              x \in relationships[seed][k] /\ y \in relationships[x][h]}

\* C15: find_all_related_files(seed) returns exactly the changed files that are the
\* seed, or in any bucket of the seed, or in a tests / tested_by / imports /
\* imported_by bucket of a file in a bucket of the seed, in the order of the
\* changes.  A file reached only through a second-hop config edge is left out, and
\* nothing beyond the second hop is taken in (in the chain main.py, helper.py,
\* helperSpec.py, fixtures.py the group of main.py stops at helperSpec.py).
C15_TwoHopExpansion ==
    \A g \in DOMAIN groups :
        LET seed == groups[g].main_file
            files == groups[g].files
        IN /\ GroupPaths(groups[g]) = ExpectedRelated(seed)
           /\ (changes = ChainExample /\ g = 1) =>
                 GroupPaths(groups[g]) = {"app/main.py", "app/helper.py", "app/helperSpec.py"}
           /\ \E f \in [DOMAIN files -> DOMAIN changes] :
                 /\ \A i \in DOMAIN files : files[i] = changes[f[i]]
                 /\ \A i, j \in DOMAIN files : i < j => f[i] < f[j]

\* the group of seed UserServiceTest.java takes in UserService.java and leaves out
\* application.yml, which only a config edge of UserService.java reaches
C15_Witness ==
    /\ gpc = "done"
    /\ "application.yml" \in {PathOf(changes[i]) : i \in DOMAIN changes}
    /\ groups[1].main_file = "UserServiceTest.java"
    /\ GroupPaths(groups[1]) = {"UserServiceTest.java", "UserService.java"}

\* the roles of the members of a group
RolesOf(g) == {determine_file_type(q) : q \in GroupPaths(g)}

\* C17 as stated: in every group returned, a type ending in '_only' describes all
\* members: a 'test_only' group has only test members, a 'config_only' group only
\* config members, a 'documentation_only' group only documentation members and a
\* 'source_only' group only source members.
C17_OnlyTypesDescribeAllMembers ==
    gpc = "done" =>
        \A g \in DOMAIN groups :
            /\ groups[g].type = "test_only" => RolesOf(groups[g]) = {"test"}
            /\ groups[g].type = "config_only" => RolesOf(groups[g]) = {"config"}
            /\ groups[g].type = "documentation_only" =>
                  RolesOf(groups[g]) = {"documentation"}
            /\ groups[g].type = "source_only" => RolesOf(groups[g]) = {"source"}

\* C17 amended: a type ending in '_only' names the leading role among the members,
\* not the role of all of them: a 'test_only' group has a test member and no source
\* member; a 'config_only' group has a config member and no test or source member;
\* a 'documentation_only' group has a documentation member and no test or config
\* member; a 'source_only' group has no test, config or documentation member.
C17_OnlyTypesNameLeadingRole ==
    gpc = "done" =>
        \A g \in DOMAIN groups :
            LET R == RolesOf(groups[g]) IN
            /\ groups[g].type = "test_only" => ("test" \in R /\ "source" \notin R)
            /\ groups[g].type = "config_only" =>
                  ("config" \in R /\ "test" \notin R /\ "source" \notin R)
            /\ groups[g].type = "documentation_only" =>
                  ("documentation" \in R /\ "test" \notin R /\ "config" \notin R)
            /\ groups[g].type = "source_only" =>
                  R \cap {"test", "config", "documentation"} = {}

\* UserServiceTest.java and UserService.yml share a stem and form one 'test_only'
\* group with a config member
C17_Witness ==
    /\ gpc = "done"
    /\ Len(groups) = 1
    /\ groups[1].type = "test_only"
    /\ RolesOf(groups[1]) = {"test", "config"}

(***************************************************************************)
(* Claims about the Diff Position Indexer.                                 *)
(***************************************************************************)
\* the loop has just taken line diff_src[dpos]
Stepped == dpc = "loop" /\ dpos <= Len(diff_src) /\ dpos' = dpos + 1

\* an added line that is not mistaken for the '+++' file marker
PureAddition(it) == it.kind = "add" /\ ~StartsWith(RenderLine(it), "+++")

\* a removed line that is not mistaken for the '---' file marker
PureDeletion(it) == it.kind = "rem" /\ ~StartsWith(RenderLine(it), "---")

\* a 'diff --git' header of one file, a hunk header, then hunks of that file
WellFormedDiff(src) ==
    /\ Len(src) >= 2
    /\ src[1].kind = "file"
    /\ src[2].kind = "hunk"
    /\ \A i \in 3 .. Len(src) : src[i].kind \in {"hunk", "add", "rem", "ctx", "nonl"}

\* the hunk header that line j of a well-formed diff belongs to
HunkOf(src, j) ==
    CHOOSE h \in 1 .. (j - 1) :
        /\ src[h].kind = "hunk"
        /\ \A k \in (h + 1) .. (j - 1) : src[k].kind # "hunk"

\* the 1-based position of line j in the post-change file: the hunk's start plus
\* the added and context lines of the hunk before it
TrueLine(src, j) ==
    src[HunkOf(src, j)].start
        + Cardinality({k \in (HunkOf(src, j) + 1) .. (j - 1) :
                          src[k].kind \in {"add", "ctx"}})

\* the records of the added lines among the first n lines, at their true positions
RECURSIVE ExpectedAdded(_, _)
ExpectedAdded(src, n) ==
    IF n = 0 THEN <<>>
    ELSE IF src[n].kind = "add"
         THEN Append(ExpectedAdded(src, n - 1),
                     LineRecord(src[1].file, TrueLine(src, n), "added", src[n].text))
         ELSE ExpectedAdded(src, n - 1)

IsAddedRecord(r) == r.type = "added"

\* C4: for every well-formed unified diff of a file, the records of kind 'added'
\* that parse_diff_for_line_info returns are exactly the added lines of the diff,
\* each at its true 1-based position in the post-change file, whatever the text of
\* the lines is (also removed text that begins with '--' and added text that begins
\* with '++').
C4_AddedLinesAtTruePosition ==
    (dpc = "done" /\ WellFormedDiff(diff_src))
        => SelectSeq(lines_info, IsAddedRecord) = ExpectedAdded(diff_src, Len(diff_src))

C7_FileHeaderResetsCounter ==
    (dpos > 1 /\ diff_src[dpos - 1].kind = "file")
        => current_file = diff_src[dpos - 1].file /\ new_line_num = 0

\* C8: a hunk header without a '+<digits>' field leaves the counter, the current
\* file and the records unchanged, the loop goes on, and the pass ends only after
\* the last line of the diff has been read.
C8_UnparseableHunkSkipped ==
    /\ [](dpc \in {"loop", "done"})
    /\ [](dpc = "done" => dpos = Len(diff_src) + 1)
    /\ [][Stepped /\ diff_src[dpos].kind = "badhunk"
            => /\ new_line_num' = new_line_num
               /\ current_file' = current_file
               /\ lines_info' = lines_info
               /\ dpc' = "loop"]_vars

\* an added line read after an unparseable hunk header is recorded at the position
\* the earlier header gave
C8_Witness ==
    /\ dpc = "done"
    /\ diff_src = << DiffItem("file", "a.py", 0, ""), DiffItem("hunk", "", 10, ""),
                     DiffItem("badhunk", "", 0, ""), DiffItem("add", "", 0, "x") >>
    /\ lines_info = << LineRecord("a.py", 10, "added", "x") >>

(***************************************************************************)
(* Claims about the Suggestion Locator.                                    *)
(***************************************************************************)
\* the indexes of the indexed paths with the cited path's final component
SameBasenameAt(c, ps) == {i \in DOMAIN ps : Basename(ps[i]) = Basename(c)}

\* the indexes of the indexed paths that contain the cited path or lie within it
SubstringAt(c, ps) == {i \in DOMAIN ps : Contains(ps[i], c) \/ Contains(c, ps[i])}

\* C9: normalize_file_path returns the cited path when it is indexed; otherwise the
\* first indexed path with the same final component; otherwise the first indexed
\* path that contains the cited path or is contained in it; otherwise nothing.  A
\* lower tier is used only when no indexed path matches a higher one.
\* 'utils/helper.js' against {'src/utils/helper.js'} gives 'src/utils/helper.js'.
C9_ThreeTierResolution ==
    npc = "done" =>
        LET c == gemini_file_path
            ps == actual_file_paths
        IN /\ c \in SeqRange(ps) => normalized_file = c
           /\ (c \notin SeqRange(ps) /\ SameBasenameAt(c, ps) # {})
                 => normalized_file = ps[Min(SameBasenameAt(c, ps))]
           /\ (c \notin SeqRange(ps) /\ SameBasenameAt(c, ps) = {}
                 /\ SubstringAt(c, ps) # {})
                 => normalized_file = ps[Min(SubstringAt(c, ps))]
           /\ (c \notin SeqRange(ps) /\ SameBasenameAt(c, ps) = {}
                 /\ SubstringAt(c, ps) = {})
                 => normalized_file = None
           /\ (c = "utils/helper.js" /\ ps = <<"src/utils/helper.js">>)
                 => normalized_file = "src/utils/helper.js"

\* the basename tier picks a later path although an earlier one matches as substring
C9_Witness ==
    /\ npc = "done"
    /\ gemini_file_path = "helper.js"
    /\ actual_file_paths = <<"helper.js.map", "src/utils/helper.js">>
    /\ normalized_file = "src/utils/helper.js"

\* no indexed path matches the cited path in any tier
NoTier(c, ps) == c \notin SeqRange(ps) /\ SameBasenameAt(c, ps) = {} /\ SubstringAt(c, ps) = {}

\* C10: every suggestion returned has a file that the index built from the same
\* combined diff holds; a review line none of whose cited paths matches a tier adds
\* no suggestion and the scan goes on; when the index holds no file the result is
\* the empty sequence.
C10_SuggestionsCiteIndexedFiles ==
    /\ [](rpc = "done" =>
            \A k \in DOMAIN unique_suggestions :
                unique_suggestions[k].file \in {lines_info[j].file : j \in DOMAIN lines_info})
    /\ [](rpc = "done" /\ lines_info = <<>> => unique_suggestions = <<>>)
    /\ [][(rpc = "loop" /\ rpos <= Len(review) /\ rpos' = rpos + 1)
            => LET line == Strip(review[rpos])
                   m1 == FileLineMatch(line)
                   m2 == NarrativeMatch(line)
               IN ((m1.ok => NoTier(m1.file_path, file_lines))
                     /\ (m2.ok => NoTier(m2.file_path, file_lines)))
                    => suggestions' = suggestions /\ rpc' = "loop"
       ]_vars

\* a review with a resolvable and an unresolvable citation has been parsed
C10_Witness ==
    /\ rpc = "done"
    /\ review = <<"zz.rb:3 - no such file", "src/a.py:11 ~ rename x">>
    /\ lines_info # <<>>
    /\ unique_suggestions = <<Suggestion("a.py", 11, "rename x")>>

\* the indexes of sq whose (file, line) pair occurs at no earlier index
FirstOccurrences(sq) ==
    {i \in DOMAIN sq :
        \A j \in 1 .. (i - 1) : sq[j].file # sq[i].file \/ sq[j].line # sq[i].line}

\* the elements of sq at the indexes S, in increasing index order
AtIndexes(sq, S) ==
    [k \in 1 .. Cardinality(S) |->
        sq[CHOOSE i \in S : Cardinality({j \in S : j < i}) = k - 1]]

\* C11: the returned sequence is the sequence of resolved candidates, in review-text
\* order, without every candidate whose (file, line) pair equals that of an earlier
\* candidate: no two returned suggestions share a pair, the first one met is the one
\* kept (with its message), and the kept ones stay in input order.
C11_FirstOccurrenceKept ==
    rpc = "done"
        => /\ unique_suggestions = AtIndexes(suggestions, FirstOccurrences(suggestions))
           /\ \A i, j \in DOMAIN unique_suggestions :
                 i # j => \/ unique_suggestions[i].file # unique_suggestions[j].file
                          \/ unique_suggestions[i].line # unique_suggestions[j].line

\* two review lines resolve to ("a.py", 11) with different messages; the first
\* message is the one returned
C11_Witness ==
    /\ rpc = "done"
    /\ review = <<"src/a.py:11 ~ rename x", "a.py:11 - use a constant">>
    /\ Len(suggestions) = 2
    /\ unique_suggestions = <<Suggestion("a.py", 11, "rename x")>>

(***************************************************************************)
(* Claims about the review poster.                                         *)
(***************************************************************************)
\* C12: for every suggestion post_combined_review attempts to post, if the
\* position-anchored post fails, whatever the failure (an HTTP error status, a
\* connection error or a timeout), a plain top-level comment whose body holds the
\* file path, the line number and the message is posted next: the request for it
\* follows the failed request (whether the platform accepts it is not the code's
\* doing), so no suggestion ends with neither.
C12_FallbackAfterFailedInline ==
    \A i \in DOMAIN requests :
        (requests[i].kind = "inline" /\ requests[i].outcome # "created")
            => /\ i < Len(requests)
               /\ requests[i + 1].kind = "plain"
               /\ Contains(requests[i + 1].body, requests[i].file)
               /\ Contains(requests[i + 1].body, Dec(requests[i].line))
               /\ Contains(requests[i + 1].body, requests[i].body)

\* the requests that carry the marker of the commit under review
MarkerRequests ==
    {i \in DOMAIN requests :
        requests[i].kind = "plain" /\ requests[i].body = MarkerComment(commit_sha)}

\* C18: post_combined_review posts the REVIEWED_COMMIT marker of a commit only if
\* the generator call of the group succeeded; when the generator fails (non-zero
\* exit on both attempts, timeout, missing binary) no marker is posted, so a later
\* run does not take the commit as reviewed; and a marker is posted only after
\* every parsed suggestion has been attempted.
C18_MarkerOnlyAfterGeneratorSuccess ==
    /\ MarkerRequests # {} => gen_outcome = "ok"
    /\ (ppc = "done" /\ gen_outcome # "ok")
           => commit_sha \notin get_reviewed_commits(notes, CommitShas)
    /\ MarkerRequests # {} => ipos > Len(unique_suggestions)

(***************************************************************************)
(* Claims about create_file_group.                                         *)
(***************************************************************************)
\* the roles that occur among the members
MemberRoles == {determine_file_type(PathOf(member_files[i])) : i \in DOMAIN member_files}

\* C13: the group type is given by the first matching rule over the set of member
\* roles: comprehensive (test, source and config present), source_with_test,
\* source_with_config, test_only, config_only, documentation_only, source_only; it
\* depends only on which roles occur, not on their order or number.
C13_GroupTypeByFirstRule ==
    cpc = "done" =>
        LET t == "test" \in MemberRoles
            s == "source" \in MemberRoles
            c == "config" \in MemberRoles
            d == "documentation" \in MemberRoles
        IN /\ group.type = "comprehensive" <=> (t /\ s /\ c)
           /\ group.type = "source_with_test" <=> (t /\ s /\ ~c)
           /\ group.type = "source_with_config" <=> (s /\ c /\ ~t)
           /\ group.type = "test_only" <=> (t /\ ~s)
           /\ group.type = "config_only" <=> (c /\ ~t /\ ~s)
           /\ group.type = "documentation_only" <=> (d /\ ~t /\ ~c)
           /\ group.type = "source_only" <=> (~t /\ ~c /\ ~d)

\* a config file and a test file, in this order and without a source file, make a
\* 'test_only' group: the test rule is met before the config rule
C13_Witness ==
    /\ cpc = "done"
    /\ Len(member_files) = 2
    /\ member_files[1].path = "application.yml"
    /\ member_files[2].path = "UserServiceTest.java"
    /\ group.type = "test_only"

(***************************************************************************)
(* Claims about the orchestrator.                                          *)
(***************************************************************************)
\* the group whose combined diff was last handed to post_combined_review
ReviewedFiles == groups[gi - 1].files

HasAddedLine(f) == \E j \in DOMAIN f.diff : IsAdded(f.diff[j])

\* the review line '<path>:<n> - ' before its message
Citation(file, n) == file \o ":" \o Dec(n) \o " - "

CitedLineNumbers == 1 .. 12

\* C16: when the orchestrator reviews a group, the locator's index is built over
\* the combined diff as the orchestrator assembles it; every member with a
\* non-empty diff that holds an added line has its path in the indexed file set,
\* so a review line '<path>:<n> - <message>' citing that member yields a
\* Suggestion with that file, line n and that message.
C16_MembersWithAddedLinesAreIndexed ==
    (mpc = "groups" /\ gi > 1 /\ rpc = "done")
        => \A k \in DOMAIN ReviewedFiles :
               LET f == ReviewedFiles[k]
               IN (f.diff # <<>> /\ HasAddedLine(f))
                      => /\ PathOf(f) \in SeqRange(file_lines)
                         /\ \A i \in DOMAIN review, n \in CitedLineNumbers :
                               LET c == Citation(PathOf(f), n)
                               IN (StartsWith(review[i], c) /\ Len(review[i]) > Len(c))
                                      => Suggestion(PathOf(f), n,
                                                    DropPrefix(review[i], Len(c)))
                                             \in SeqRange(unique_suggestions)

\* the notes the merge request held when the run started: the notes without those
\* the run's own requests created
NotesAtStart == SubSeq(notes, 1, Len(notes) - Len(Created(requests)))

CommitIds == {all_commits[i] : i \in DOMAIN all_commits}

MarkedAtStart == get_reviewed_commits(NotesAtStart, CommitIds)

\* C19: if every commit of the merge request already has a REVIEWED_COMMIT marker
\* in the notes, a run of main calls the generator zero times and posts no
\* comment, for every number of commits and every merge-request state; and the
\* full review of all changes happens only when no commit was reviewed before.
C19_NothingToDoWhenAllCommitsMarked ==
    /\ MarkedAtStart = CommitIds => gen_outcome = "" /\ requests = <<>>
    /\ mode = "full" => MarkedAtStart = {}

====
